---- MODULE Spec2Model ----
(***************************************************************************)
(* A model of package ctmap (src/map.go): a constant-time key-value map.   *)
(*                                                                         *)
(* The Go value  Map{m [][]byte; keySize, valSize int}  is modelled by     *)
(*   keySize, valSize  the two sizes fixed by New / NewWithCapacity,       *)
(*   arr, len, cap     the slice m.m: arr is the populated prefix of its   *)
(*                     backing array (slots above Len(arr) are nil), len   *)
(*                     its length and cap its capacity.  m.m itself is     *)
(*                     SubSeq(arr, 1, len); arr[len+1 .. ] are the slots   *)
(*                     a truncation left behind.                           *)
(* Every entry is a []byte that Add allocates afresh, so no two slots      *)
(* alias and an entry is modelled by its value, a sequence of bytes.       *)
(*                                                                         *)
(* History variables (not program state):                                  *)
(*   call   the last call: its name and arguments as passed,               *)
(*   res    its outcome: the returned int v, the panic message err ("" if  *)
(*          none), the caller's val buffer after the call, and the         *)
(*          sequence of crypto/subtle primitive calls it made,             *)
(*   pre    arr, len, cap as they were when the call started,              *)
(*   adds   number of completed Add calls,                                 *)
(*   dels   number of Delete calls that returned 1,                        *)
(*   initCap  the capacity the map was created with (0 for New),           *)
(*   tags   for every slot of arr, the number of the Add call that made    *)
(*          the entry whose bytes the slot holds (0: zeroed by Delete);    *)
(*          it travels with the bytes through Delete's copies,             *)
(*   visited  the (key, val) pairs the last Range passed to its callback,  *)
(*   steps  what the last Delete's scan did, position by position.         *)
(*   lastAdd  the Add the caller has just taken the result of, if the      *)
(*          call before the present one was an Add that returned.          *)
(***************************************************************************)
EXTENDS Integers, Sequences, FiniteSets, TLC

VARIABLES keySize, valSize, arr, len, cap, call, res, pre, adds, dels,
          initCap, tags, visited, steps, lastAdd

vars == <<keySize, valSize, arr, len, cap, call, res, pre, adds, dels,
          initCap, tags, visited, steps, lastAdd>>

(***************************************************************************)
(* Bounds of the model.                                                    *)
(***************************************************************************)
\* NewWithCapacity's capacity ranges over 0 .. MaxCap.
MaxCap == 2
\* Add is called at most MaxAdds times in a behaviour.
MaxAdds == 3

\* The byte values keys and values are drawn from: 0x00 and 0xa5.  The code
\* only ever compares bytes for equality and masks them with 0x00 or 0xff, so
\* one zero and one non-zero byte tell every case apart.
Bytes == {0, 165}

\* The key and value sizes a map is created with (0 for valSize is the
\* constant-time set of keys).
KeySizes == {0, 1}
ValSizes == {0, 1}

\* All byte strings of length n.
BytesOfLen(n) == [1 .. n -> Bytes]

\* A byte string of length n filled with zeros.
Zeros(n) == [i \in 1 .. n |-> 0]

\* Arguments offered for a parameter whose required length is n: every byte
\* string of that length, and one string each of length n-1 and n+1.
Args(n) == BytesOfLen(n) \cup {Zeros(n + 1)} \cup (IF n > 0 THEN {Zeros(n - 1)} ELSE {})

\* The argument tuples a call is tried with: every tuple of correctly sized
\* arguments (err = ""), and, since the size checks read lengths only, the
\* zero-filled tuples among those with a wrongly sized argument.
Offered(args, err) ==
    err = "" \/ \A a \in 1 .. Len(args) : args[a] = Zeros(Len(args[a]))

(***************************************************************************)
(* Integer bit operations of Go on non-negative operands.                  *)
(***************************************************************************)
RECURSIVE BitAnd(_, _)
BitAnd(a, b) ==
    IF a = 0 \/ b = 0 THEN 0
    ELSE (a % 2) * (b % 2) + 2 * BitAnd(a \div 2, b \div 2)

RECURSIVE BitOr(_, _)
BitOr(a, b) ==
    IF a = 0 THEN b
    ELSE IF b = 0 THEN a
    ELSE (IF a % 2 = 1 \/ b % 2 = 1 THEN 1 ELSE 0) + 2 * BitOr(a \div 2, b \div 2)

\* a &^ b
RECURSIVE BitAndNot(_, _)
BitAndNot(a, b) ==
    IF a = 0 THEN 0
    ELSE (IF a % 2 = 1 /\ b % 2 = 0 THEN 1 ELSE 0) + 2 * BitAndNot(a \div 2, b \div 2)

\* byte(x): conversion of an int to uint8.
ToByte(x) == x % 256

(***************************************************************************)
(* crypto/subtle as used by the map.                                       *)
(***************************************************************************)
\* 1 if x and y have equal contents, 0 otherwise (0 too when lengths differ).
ConstantTimeCompare(x, y) == IF x = y THEN 1 ELSE 0

\* The contents of x after ConstantTimeCopy(v, x, y): y if v = 1, x if v = 0,
\* blended bytewise with the masks byte(v-1) and byte(^(v-1)).
ConstantTimeCopy(v, x, y) ==
    LET xmask == ToByte(v - 1)
        ymask == 255 - xmask
    IN  [i \in 1 .. Len(x) |-> BitOr(BitAnd(x[i], xmask), BitAnd(y[i], ymask))]

(***************************************************************************)
(* Slicing of an entry.                                                    *)
(***************************************************************************)
\* KeyOf with a slip: entry[:m.keySize-1] (nothing when keySize is 0).
KeyOfShort(entry) == SubSeq(entry, 1, keySize - 1)

\* entry[:m.keySize]
KeyOf(entry) == SubSeq(entry, 1, keySize)

\* entry[m.keySize:]
ValOf(entry) == SubSeq(entry, keySize + 1, Len(entry))

\* m.m
M == SubSeq(arr, 1, len)

\* The populated slots of the backing array above len.
Spare == SubSeq(arr, len + 1, Len(arr))

(***************************************************************************)
(* The size checks at the head of each method: the panic message, or "".   *)
(***************************************************************************)
CheckKey(key) == IF Len(key) # keySize THEN "key has invalid size" ELSE ""

CheckVal(val) == IF Len(val) # valSize THEN "val has invalid size" ELSE ""

CheckKeyVal(key, val) == IF CheckKey(key) # "" THEN CheckKey(key) ELSE CheckVal(val)

CheckOldNew(oldKey, newKey) ==
    IF Len(oldKey) # keySize THEN "oldKey has invalid size"
    ELSE IF Len(newKey) # keySize THEN "newKey has invalid size"
    ELSE ""

CheckOldNewVal(oldKey, newKey, val) ==
    IF CheckOldNew(oldKey, newKey) # "" THEN CheckOldNew(oldKey, newKey) ELSE CheckVal(val)

(***************************************************************************)
(* Add: the entry it builds and the append.                                *)
(***************************************************************************)
\* NewEntry with a slip: entry := make([]byte, keySize), which leaves no room
\* for the value.
NewEntryKeyOnly(key, val) == [i \in 1 .. keySize |-> key[i]]

\* entry := make([]byte, keySize+valSize); copy(entry[:keySize], key);
\* copy(entry[keySize:], val)
NewEntry(key, val) ==
    [i \in 1 .. keySize + valSize |-> IF i <= keySize THEN key[i] ELSE val[i - keySize]]

\* The capacity append gives a full slice of capacity c (Go doubles small slices).
GrowCap(c) == IF c = 0 THEN 1 ELSE 2 * c

\* AppendEntry with a slip: a slot a truncation left behind is kept and the
\* entry is put after it.
AppendEntryAfterSpare(entry) ==
    IF len < cap
    THEN [arr |-> Append(arr, entry), len |-> len + 1, cap |-> cap, realloc |-> FALSE]
    ELSE [arr |-> Append(M, entry), len |-> len + 1, cap |-> GrowCap(cap),
          realloc |-> TRUE]

\* AppendEntry with a slip: the last free slot is never used, the array is
\* reallocated when len + 1 = cap already.
AppendEntryReallocEarly(entry) ==
    IF len + 1 < cap
    THEN [arr |-> IF len < Len(arr) THEN [arr EXCEPT ![len + 1] = entry]
                  ELSE Append(arr, entry),
          len |-> len + 1, cap |-> cap, realloc |-> FALSE]
    ELSE [arr |-> Append(M, entry), len |-> len + 1, cap |-> GrowCap(cap),
          realloc |-> TRUE]

\* m.m = append(m.m, entry): written in place into slot len+1 when len < cap,
\* otherwise the len live slots are copied to a new, larger array.
AppendEntry(entry) ==
    IF len < cap
    THEN [arr |-> IF len < Len(arr) THEN [arr EXCEPT ![len + 1] = entry]
                  ELSE Append(arr, entry),
          len |-> len + 1, cap |-> cap, realloc |-> FALSE]
    ELSE [arr |-> Append(M, entry), len |-> len + 1, cap |-> GrowCap(cap),
          realloc |-> TRUE]

(***************************************************************************)
(* The scans.  Each loop operator is the for loop of its method from       *)
(* index i on: mm is m.m as the earlier iterations left it, v the          *)
(* accumulator, calls the primitive calls made so far.                     *)
(***************************************************************************)
\* SetLoop with a slip: v += vv instead of v |= vv.
RECURSIVE SetLoopSum(_, _, _, _, _, _)
SetLoopSum(mm, key, val, i, v, calls) ==
    IF i > Len(mm) THEN [m |-> mm, v |-> v, calls |-> calls]
    ELSE LET entry == mm[i]
             vv    == ConstantTimeCompare(KeyOf(entry), key)
             e2    == KeyOf(entry) \o ConstantTimeCopy(vv, ValOf(entry), val)
         IN  SetLoopSum([mm EXCEPT ![i] = e2], key, val, i + 1, v + vv,
                        calls \o <<"Compare", "Copy">>)

RECURSIVE SetLoop(_, _, _, _, _, _)
SetLoop(mm, key, val, i, v, calls) ==
    IF i > Len(mm) THEN [m |-> mm, v |-> v, calls |-> calls]
    ELSE LET entry == mm[i]
             vv    == ConstantTimeCompare(KeyOf(entry), key)
             e2    == KeyOf(entry) \o ConstantTimeCopy(vv, ValOf(entry), val)
         IN  SetLoop([mm EXCEPT ![i] = e2], key, val, i + 1, BitOr(v, vv),
                     calls \o <<"Compare", "Copy">>)

Set(key, val) == SetLoop(M, key, val, 1, 0, <<>>)

\* ReplaceLoop with a slip: the compare is not masked by &^ v.
RECURSIVE ReplaceLoopNoMask(_, _, _, _, _, _, _)
ReplaceLoopNoMask(mm, oldKey, newKey, val, i, v, calls) ==
    IF i > Len(mm) THEN [m |-> mm, v |-> v, calls |-> calls]
    ELSE LET entry == mm[i]
             vv    == ConstantTimeCompare(KeyOf(entry), oldKey)
             e2    == ConstantTimeCopy(vv, KeyOf(entry), newKey)
                         \o ConstantTimeCopy(vv, ValOf(entry), val)
         IN  ReplaceLoopNoMask([mm EXCEPT ![i] = e2], oldKey, newKey, val, i + 1,
                               BitOr(v, vv), calls \o <<"Compare", "Copy", "Copy">>)

\* ReplaceLoop with a slip: the key is not copied, only the value.
RECURSIVE ReplaceLoopValOnly(_, _, _, _, _, _, _)
ReplaceLoopValOnly(mm, oldKey, newKey, val, i, v, calls) ==
    IF i > Len(mm) THEN [m |-> mm, v |-> v, calls |-> calls]
    ELSE LET entry == mm[i]
             vv    == BitAndNot(ConstantTimeCompare(KeyOf(entry), oldKey), v)
             e2    == KeyOf(entry) \o ConstantTimeCopy(vv, ValOf(entry), val)
         IN  ReplaceLoopValOnly([mm EXCEPT ![i] = e2], oldKey, newKey, val, i + 1,
                                BitOr(v, vv), calls \o <<"Compare", "Copy">>)

RECURSIVE ReplaceLoop(_, _, _, _, _, _, _)
ReplaceLoop(mm, oldKey, newKey, val, i, v, calls) ==
    IF i > Len(mm) THEN [m |-> mm, v |-> v, calls |-> calls]
    ELSE LET entry == mm[i]
             vv    == BitAndNot(ConstantTimeCompare(KeyOf(entry), oldKey), v)
             e2    == ConstantTimeCopy(vv, KeyOf(entry), newKey)
                         \o ConstantTimeCopy(vv, ValOf(entry), val)
         IN  ReplaceLoop([mm EXCEPT ![i] = e2], oldKey, newKey, val, i + 1,
                         BitOr(v, vv), calls \o <<"Compare", "Copy", "Copy">>)

Replace(oldKey, newKey, val) == ReplaceLoop(M, oldKey, newKey, val, 1, 0, <<>>)

\* RenameLoop with a slip: the compare is not masked by &^ v.
RECURSIVE RenameLoopNoMask(_, _, _, _, _, _)
RenameLoopNoMask(mm, oldKey, newKey, i, v, calls) ==
    IF i > Len(mm) THEN [m |-> mm, v |-> v, calls |-> calls]
    ELSE LET entry == mm[i]
             vv    == ConstantTimeCompare(KeyOf(entry), oldKey)
             e2    == ConstantTimeCopy(vv, KeyOf(entry), newKey) \o ValOf(entry)
         IN  RenameLoopNoMask([mm EXCEPT ![i] = e2], oldKey, newKey, i + 1,
                              BitOr(v, vv), calls \o <<"Compare", "Copy">>)

RECURSIVE RenameLoop(_, _, _, _, _, _)
RenameLoop(mm, oldKey, newKey, i, v, calls) ==
    IF i > Len(mm) THEN [m |-> mm, v |-> v, calls |-> calls]
    ELSE LET entry == mm[i]
             vv    == BitAndNot(ConstantTimeCompare(KeyOf(entry), oldKey), v)
             e2    == ConstantTimeCopy(vv, KeyOf(entry), newKey) \o ValOf(entry)
         IN  RenameLoop([mm EXCEPT ![i] = e2], oldKey, newKey, i + 1,
                        BitOr(v, vv), calls \o <<"Compare", "Copy">>)

Rename(oldKey, newKey) == RenameLoop(M, oldKey, newKey, 1, 0, <<>>)

\* ContainsLoop with a slip: v = Compare instead of v |= Compare.
RECURSIVE ContainsLoopAssign(_, _, _, _, _)
ContainsLoopAssign(mm, key, i, v, calls) ==
    IF i > Len(mm) THEN [m |-> mm, v |-> v, calls |-> calls]
    ELSE ContainsLoopAssign(mm, key, i + 1, ConstantTimeCompare(KeyOf(mm[i]), key),
                            calls \o <<"Compare">>)

RECURSIVE ContainsLoop(_, _, _, _, _)
ContainsLoop(mm, key, i, v, calls) ==
    IF i > Len(mm) THEN [m |-> mm, v |-> v, calls |-> calls]
    ELSE ContainsLoop(mm, key, i + 1,
                      BitOr(v, ConstantTimeCompare(KeyOf(mm[i]), key)),
                      calls \o <<"Compare">>)

Contains(key) == ContainsLoop(M, key, 1, 0, <<>>)

\* LookupLoop with a slip: the compare is not masked by &^ v.
RECURSIVE LookupLoopNoMask(_, _, _, _, _, _)
LookupLoopNoMask(mm, key, val, i, v, calls) ==
    IF i > Len(mm) THEN [m |-> mm, val |-> val, v |-> v, calls |-> calls]
    ELSE LET entry == mm[i]
             vv    == ConstantTimeCompare(KeyOf(entry), key)
         IN  LookupLoopNoMask(mm, key, ConstantTimeCopy(vv, val, ValOf(entry)), i + 1,
                              BitOr(v, vv), calls \o <<"Compare", "Copy">>)

\* LookupLoop with a slip: the arguments of the copy are swapped,
\* ConstantTimeCopy(vv, entry[m.keySize:], val) as in Set.
RECURSIVE LookupLoopCopyIntoEntry(_, _, _, _, _, _)
LookupLoopCopyIntoEntry(mm, key, val, i, v, calls) ==
    IF i > Len(mm) THEN [m |-> mm, val |-> val, v |-> v, calls |-> calls]
    ELSE LET entry == mm[i]
             vv    == BitAndNot(ConstantTimeCompare(KeyOf(entry), key), v)
             e2    == KeyOf(entry) \o ConstantTimeCopy(vv, ValOf(entry), val)
         IN  LookupLoopCopyIntoEntry([mm EXCEPT ![i] = e2], key, val, i + 1,
                                     BitOr(v, vv), calls \o <<"Compare", "Copy">>)

\* LookupLoop with a slip: the scan stops at the first match.
RECURSIVE LookupLoopEarlyExit(_, _, _, _, _, _)
LookupLoopEarlyExit(mm, key, val, i, v, calls) ==
    IF i > Len(mm) \/ v = 1 THEN [m |-> mm, val |-> val, v |-> v, calls |-> calls]
    ELSE LET entry == mm[i]
             vv    == BitAndNot(ConstantTimeCompare(KeyOf(entry), key), v)
         IN  LookupLoopEarlyExit(mm, key, ConstantTimeCopy(vv, val, ValOf(entry)), i + 1,
                                 BitOr(v, vv), calls \o <<"Compare", "Copy">>)

RECURSIVE LookupLoop(_, _, _, _, _, _)
LookupLoop(mm, key, val, i, v, calls) ==
    IF i > Len(mm) THEN [m |-> mm, val |-> val, v |-> v, calls |-> calls]
    ELSE LET entry == mm[i]
             vv    == BitAndNot(ConstantTimeCompare(KeyOf(entry), key), v)
         IN  LookupLoop(mm, key, ConstantTimeCopy(vv, val, ValOf(entry)), i + 1,
                        BitOr(v, vv), calls \o <<"Compare", "Copy">>)

Lookup(key, val) == LookupLoop(M, key, val, 1, 0, <<>>)

(***************************************************************************)
(* Delete.                                                                 *)
(***************************************************************************)
\* DeleteLoop with a slip: the copy is gated on v as it was before this
\* position's compare was folded in.
RECURSIVE DeleteLoopCopyFirst(_, _, _, _, _)
DeleteLoopCopyFirst(mm, key, i, v, calls) ==
    IF i > Len(mm) - 1 THEN [m |-> mm, v |-> v, calls |-> calls, steps |-> <<>>]
    ELSE LET entry == mm[i]
             v2    == BitOr(v, ConstantTimeCompare(KeyOf(entry), key))
             m2    == [mm EXCEPT ![i] = ConstantTimeCopy(v, entry, mm[i + 1])]
             rest  == DeleteLoopCopyFirst(m2, key, i + 1, v2, calls \o <<"Compare", "Copy">>)
         IN  [rest EXCEPT !.steps = <<[read |-> entry, v |-> v2, m |-> m2]>> \o @]

\* DeleteLoop with a slip: the compare reads the next entry, m.m[i+1].
RECURSIVE DeleteLoopReadsNext(_, _, _, _, _)
DeleteLoopReadsNext(mm, key, i, v, calls) ==
    IF i > Len(mm) - 1 THEN [m |-> mm, v |-> v, calls |-> calls, steps |-> <<>>]
    ELSE LET entry == mm[i]
             v2    == BitOr(v, ConstantTimeCompare(KeyOf(mm[i + 1]), key))
             m2    == [mm EXCEPT ![i] = ConstantTimeCopy(v2, entry, mm[i + 1])]
             rest  == DeleteLoopReadsNext(m2, key, i + 1, v2, calls \o <<"Compare", "Copy">>)
         IN  [rest EXCEPT !.steps = <<[read |-> mm[i + 1], v |-> v2, m |-> m2]>> \o @]

\* DeleteLoop with a slip: v = Compare instead of v |= Compare.
RECURSIVE DeleteLoopAssign(_, _, _, _, _)
DeleteLoopAssign(mm, key, i, v, calls) ==
    IF i > Len(mm) - 1 THEN [m |-> mm, v |-> v, calls |-> calls, steps |-> <<>>]
    ELSE LET entry == mm[i]
             v2    == ConstantTimeCompare(KeyOf(entry), key)
             m2    == [mm EXCEPT ![i] = ConstantTimeCopy(v2, entry, mm[i + 1])]
             rest  == DeleteLoopAssign(m2, key, i + 1, v2, calls \o <<"Compare", "Copy">>)
         IN  [rest EXCEPT !.steps = <<[read |-> entry, v |-> v2, m |-> m2]>> \o @]

\* for i, entry := range m.m[:len(m.m)-1] { v |= Compare; Copy(v, entry, m.m[i+1]) }
\* steps records, for each position, the entry the compare read, v after the
\* compare, and m.m after the copy.
RECURSIVE DeleteLoop(_, _, _, _, _)
DeleteLoop(mm, key, i, v, calls) ==
    IF i > Len(mm) - 1 THEN [m |-> mm, v |-> v, calls |-> calls, steps |-> <<>>]
    ELSE LET entry == mm[i]
             v2    == BitOr(v, ConstantTimeCompare(KeyOf(entry), key))
             m2    == [mm EXCEPT ![i] = ConstantTimeCopy(v2, entry, mm[i + 1])]
             rest  == DeleteLoop(m2, key, i + 1, v2, calls \o <<"Compare", "Copy">>)
         IN  [rest EXCEPT !.steps = <<[read |-> entry, v |-> v2, m |-> m2]>> \o @]

\* ZeroLast with a slip: the mask is byte(-v), 0x00 for v = 0 and 0xff for v = 1.
ZeroLastInverted(last, v) == [i \in 1 .. Len(last) |-> BitAnd(last[i], ToByte(0 - v))]

\* ZeroMask with a slip: byte(1 - v), the flag flipped instead of a mask.
ZeroMaskBit(v) == ToByte(1 - v)

\* byte(v - 1)
ZeroMask(v) == ToByte(v - 1)

\* for i := range last { last[i] &= byte(v - 1) }
ZeroLast(last, v) == [i \in 1 .. Len(last) |-> BitAnd(last[i], ZeroMask(v))]

\* Delete with a slip: the last entry's key is not compared.
DeleteSkipsLast(key) ==
    IF len = 0 THEN [arr |-> arr, len |-> len, cap |-> cap, v |-> 0, calls |-> <<>>,
                     steps |-> <<>>]
    ELSE LET scan == DeleteLoop(M, key, 1, 0, <<>>)
             last == scan.m[len]
             v    == scan.v
             mm   == [scan.m EXCEPT ![len] = ZeroLast(last, v)]
         IN  [arr |-> mm \o Spare, len |-> len - v, cap |-> cap, v |-> v,
              calls |-> scan.calls,
              steps |-> Append(scan.steps,
                               [read |-> last, v |-> v, mask |-> ZeroMask(v), m |-> mm])]

\* Delete with a slip: m.m = m.m[:len(m.m)-1] whatever v is.
DeleteTruncatesAlways(key) ==
    IF len = 0 THEN [arr |-> arr, len |-> len, cap |-> cap, v |-> 0, calls |-> <<>>,
                     steps |-> <<>>]
    ELSE LET scan == DeleteLoop(M, key, 1, 0, <<>>)
             last == scan.m[len]
             v    == BitOr(scan.v, ConstantTimeCompare(KeyOf(last), key))
             mm   == [scan.m EXCEPT ![len] = ZeroLast(last, v)]
         IN  [arr |-> mm \o Spare, len |-> len - 1, cap |-> cap, v |-> v,
              calls |-> scan.calls \o <<"Compare">>,
              steps |-> Append(scan.steps,
                               [read |-> last, v |-> v, mask |-> ZeroMask(v), m |-> mm])]

\* Delete with a slip: the truncation also gives up capacity,
\* m.m = m.m[:len(m.m)-v:cap(m.m)-v].
DeleteShrinksCap(key) ==
    IF len = 0 THEN [arr |-> arr, len |-> len, cap |-> cap, v |-> 0, calls |-> <<>>,
                     steps |-> <<>>]
    ELSE LET scan == DeleteLoop(M, key, 1, 0, <<>>)
             last == scan.m[len]
             v    == BitOr(scan.v, ConstantTimeCompare(KeyOf(last), key))
             mm   == [scan.m EXCEPT ![len] = ZeroLast(last, v)]
             all  == mm \o Spare
         IN  [arr |-> IF Len(all) > cap - v THEN SubSeq(all, 1, cap - v) ELSE all,
              len |-> len - v, cap |-> cap - v,
              v |-> v, calls |-> scan.calls \o <<"Compare">>,
              steps |-> Append(scan.steps,
                               [read |-> last, v |-> v, mask |-> ZeroMask(v), m |-> mm])]

\* The whole method on a map that passed the size check: arr, len, cap and the
\* returned v.  len(m.m) == 0 returns 0 at once; otherwise the scan, the fold
\* of the last entry, its masking, and m.m = m.m[:len(m.m)-v].  A two-index
\* slice expression keeps the capacity of the slice it is taken from.  The
\* last element of steps records the final compare: the entry it read, v
\* after it, the mask byte(v-1), and m.m after the masking.
Delete(key) ==
    IF len = 0 THEN [arr |-> arr, len |-> len, cap |-> cap, v |-> 0, calls |-> <<>>,
                     steps |-> <<>>]
    ELSE LET scan == DeleteLoop(M, key, 1, 0, <<>>)
             last == scan.m[len]
             v    == BitOr(scan.v, ConstantTimeCompare(KeyOf(last), key))
             mm   == [scan.m EXCEPT ![len] = ZeroLast(last, v)]
         IN  [arr |-> mm \o Spare, len |-> len - v, cap |-> cap, v |-> v,
              calls |-> scan.calls \o <<"Compare">>,
              steps |-> Append(scan.steps,
                               [read |-> last, v |-> v, mask |-> ZeroMask(v), m |-> mm])]

\* func (m *Map) Len() int
MapLen == len

(***************************************************************************)
(* Range.  The method is not in src/map.go; only its test is               *)
(* (src/map_test.go, TestRange).  It is modelled from the specification:   *)
(* visit(key, val) is invoked once per stored entry, in storage order,     *)
(* with the entry's key region and value region.  The callback of the      *)
(* model records its arguments and touches nothing.                        *)
(***************************************************************************)
RECURSIVE RangeLoop(_, _, _)
RangeLoop(mm, i, seen) ==
    IF i > Len(mm) THEN seen
    ELSE RangeLoop(mm, i + 1, Append(seen, <<KeyOf(mm[i]), ValOf(mm[i])>>))

Range == RangeLoop(M, 1, <<>>)

(***************************************************************************)
(* The tags.  Add tags the entry it appends with the number of the call.   *)
(* Delete moves bytes between entries, so the tag of a slot moves exactly  *)
(* as its bytes do: the scan is run on the entries with their tag as one   *)
(* more byte at the end, beyond the key and value regions.                 *)
(***************************************************************************)
Tagged(mm, tg) == [i \in 1 .. Len(mm) |-> Append(mm[i], tg[i])]

TagOf(entry) == entry[Len(entry)]

\* tags after the append a: the new entry's slot gets the number of this Add.
AddTags(a) ==
    [i \in 1 .. Len(a.arr) |->
        IF i = a.len THEN adds + 1 ELSE IF i \in DOMAIN tags THEN tags[i] ELSE 0]

\* tags after Delete(key).
DeleteTags(key) ==
    IF len = 0 THEN tags
    ELSE LET scan == DeleteLoop(Tagged(M, tags), key, 1, 0, <<>>)
             last == scan.m[len]
             v    == BitOr(scan.v, ConstantTimeCompare(KeyOf(last), key))
         IN  [i \in 1 .. Len(tags) |->
                 IF i < len THEN TagOf(scan.m[i])
                 ELSE IF i = len THEN TagOf(ZeroLast(last, v))
                 ELSE tags[i]]

\* DeleteCheck with a slip: the empty map returns before the size check.
DeleteCheckAfterEmpty(key) == IF len = 0 THEN "" ELSE CheckKey(key)

\* The head of Delete: the size check comes before the test for an empty map.
DeleteCheck(key) == CheckKey(key)

(***************************************************************************)
(* The state machine: one action per exported method.  A call whose size   *)
(* check fails panics; the panic is recorded in res.err and the map is     *)
(* left as the code left it when it panicked.                              *)
(***************************************************************************)
NoBytes == <<>>

Snapshot == [arr |-> arr, len |-> len, cap |-> cap]

\* The call before the present one was not an Add that returned.
NoAdd == [some |-> FALSE, key |-> NoBytes, val |-> NoBytes, m |-> <<>>]

CallRec(name, key, newKey, val) ==
    [name |-> name, key |-> key, newKey |-> newKey, val |-> val]

ResRec(v, err, val, calls, realloc) ==
    [v |-> v, err |-> err, val |-> val, calls |-> calls, realloc |-> realloc]

\* func New(keySize, valSize int) *Map
New(ks, vs) ==
    /\ keySize = ks /\ valSize = vs
    /\ arr = <<>> /\ len = 0 /\ cap = 0
    /\ call = CallRec("New", NoBytes, NoBytes, NoBytes)

\* func NewWithCapacity(keySize, valSize, capacity int) *Map
NewWithCapacity(ks, vs, capacity) ==
    /\ keySize = ks /\ valSize = vs
    /\ arr = <<>> /\ len = 0 /\ cap = capacity
    /\ call = CallRec("NewWithCapacity", NoBytes, NoBytes, NoBytes)

Init ==
    /\ \E ks \in KeySizes, vs \in ValSizes :
          \/ New(ks, vs)
          \/ \E capacity \in 0 .. MaxCap : NewWithCapacity(ks, vs, capacity)
    /\ res = ResRec(0, "", NoBytes, <<>>, FALSE)
    /\ pre = Snapshot
    /\ adds = 0
    /\ dels = 0
    /\ initCap = cap
    /\ tags = <<>>
    /\ visited = <<>>
    /\ steps = <<>>
    /\ lastAdd = NoAdd

\* No call is in progress or awaiting its caller: the map was just created, or
\* the caller has taken the last call's result.
Idle == call.name \in {"", "New", "NewWithCapacity"}

\* The caller takes the result of the last call; the map is untouched.
Return ==
    /\ ~Idle
    /\ call' = CallRec("", NoBytes, NoBytes, NoBytes)
    /\ res' = ResRec(0, "", NoBytes, <<>>, FALSE)
    /\ pre' = Snapshot
    /\ visited' = <<>> /\ steps' = <<>>
    /\ lastAdd' = IF call.name = "Add" /\ res.err = ""
                  THEN [some |-> TRUE, key |-> call.key, val |-> call.val,
                        m |-> SubSeq(pre.arr, 1, pre.len)]
                  ELSE NoAdd
    /\ UNCHANGED <<keySize, valSize, arr, len, cap, adds, dels, initCap, tags>>

\* What a call that panicked in its size check leaves behind.
Panicked(name, key, newKey, val, err) ==
    /\ call' = CallRec(name, key, newKey, val)
    /\ res' = ResRec(0, err, val, <<>>, FALSE)
    /\ pre' = Snapshot
    /\ visited' = <<>> /\ steps' = <<>>
    /\ UNCHANGED <<keySize, valSize, arr, len, cap, adds, dels, initCap, tags, lastAdd>>

\* What a call that scanned m.m leaves behind: mm is m.m after the call.
Scanned(name, key, newKey, val, mm, v, buf, calls) ==
    /\ call' = CallRec(name, key, newKey, val)
    /\ res' = ResRec(v, "", buf, calls, FALSE)
    /\ pre' = Snapshot
    /\ arr' = mm \o Spare
    /\ visited' = <<>> /\ steps' = <<>>
    /\ UNCHANGED <<keySize, valSize, len, cap, adds, dels, initCap, tags, lastAdd>>

CallLen ==
    /\ Idle
    /\ call' = CallRec("Len", NoBytes, NoBytes, NoBytes)
    /\ res' = ResRec(MapLen, "", NoBytes, <<>>, FALSE)
    /\ pre' = Snapshot
    /\ visited' = <<>> /\ steps' = <<>>
    /\ UNCHANGED <<keySize, valSize, arr, len, cap, adds, dels, initCap, tags, lastAdd>>

CallRange ==
    /\ Idle
    /\ call' = CallRec("Range", NoBytes, NoBytes, NoBytes)
    /\ res' = ResRec(0, "", NoBytes, <<>>, FALSE)
    /\ pre' = Snapshot
    /\ visited' = Range
    /\ steps' = <<>>
    /\ UNCHANGED <<keySize, valSize, arr, len, cap, adds, dels, initCap, tags, lastAdd>>

CallAdd ==
    /\ Idle
    /\ adds < MaxAdds
    /\ \E key \in Args(keySize), val \in Args(valSize) :
          LET err == CheckKeyVal(key, val)
          IN  /\ Offered(<<key, val>>, err)
              /\ IF err # "" THEN Panicked("Add", key, NoBytes, val, err)
                 ELSE LET a == AppendEntry(NewEntry(key, val))
                      IN  /\ call' = CallRec("Add", key, NoBytes, val)
                          /\ res' = ResRec(0, "", val, <<>>, a.realloc)
                          /\ pre' = Snapshot
                          /\ arr' = a.arr /\ len' = a.len /\ cap' = a.cap
                          /\ adds' = adds + 1
                          /\ tags' = AddTags(a)
                          /\ visited' = <<>> /\ steps' = <<>>
                          /\ UNCHANGED <<keySize, valSize, dels, initCap, lastAdd>>

CallSet ==
    /\ Idle
    /\ \E key \in Args(keySize), val \in Args(valSize) :
       LET err == CheckKeyVal(key, val)
       IN  /\ Offered(<<key, val>>, err)
           /\ IF err # "" THEN Panicked("Set", key, NoBytes, val, err)
              ELSE LET r == Set(key, val)
                   IN  Scanned("Set", key, NoBytes, val, r.m, r.v, val, r.calls)

CallReplace ==
    /\ Idle
    /\ \E oldKey \in Args(keySize), newKey \in Args(keySize), val \in Args(valSize) :
       LET err == CheckOldNewVal(oldKey, newKey, val)
       IN  /\ Offered(<<oldKey, newKey, val>>, err)
           /\ IF err # "" THEN Panicked("Replace", oldKey, newKey, val, err)
              ELSE LET r == Replace(oldKey, newKey, val)
                   IN  Scanned("Replace", oldKey, newKey, val, r.m, r.v, val, r.calls)

CallRename ==
    /\ Idle
    /\ \E oldKey \in Args(keySize), newKey \in Args(keySize) :
       LET err == CheckOldNew(oldKey, newKey)
       IN  /\ Offered(<<oldKey, newKey>>, err)
           /\ IF err # "" THEN Panicked("Rename", oldKey, newKey, NoBytes, err)
              ELSE LET r == Rename(oldKey, newKey)
                   IN  Scanned("Rename", oldKey, newKey, NoBytes, r.m, r.v, NoBytes, r.calls)

CallContains ==
    /\ Idle
    /\ \E key \in Args(keySize) :
       LET err == CheckKey(key)
       IN  /\ Offered(<<key>>, err)
           /\ IF err # "" THEN Panicked("Contains", key, NoBytes, NoBytes, err)
              ELSE LET r == Contains(key)
                   IN  Scanned("Contains", key, NoBytes, NoBytes, r.m, r.v, NoBytes, r.calls)

\* val is the caller's buffer; res.val is its contents after the call.
CallLookup ==
    /\ Idle
    /\ \E key \in Args(keySize), val \in Args(valSize) :
       LET err == CheckKeyVal(key, val)
       IN  /\ Offered(<<key, val>>, err)
           /\ IF err # "" THEN Panicked("Lookup", key, NoBytes, val, err)
              ELSE LET r == Lookup(key, val)
                   IN  Scanned("Lookup", key, NoBytes, val, r.m, r.v, r.val, r.calls)

CallDelete ==
    /\ Idle
    /\ \E key \in Args(keySize) :
       LET err == DeleteCheck(key)
       IN  /\ Offered(<<key>>, err)
           /\ IF err # "" THEN Panicked("Delete", key, NoBytes, NoBytes, err)
              ELSE LET r == Delete(key)
                   IN  /\ call' = CallRec("Delete", key, NoBytes, NoBytes)
                       /\ res' = ResRec(r.v, "", NoBytes, r.calls, FALSE)
                       /\ pre' = Snapshot
                       /\ arr' = r.arr /\ len' = r.len /\ cap' = r.cap
                       /\ dels' = dels + r.v
                       /\ tags' = DeleteTags(key)
                       /\ visited' = <<>> /\ steps' = r.steps
                       /\ UNCHANGED <<keySize, valSize, adds, initCap, lastAdd>>

Next ==
    \/ CallLen
    \/ CallAdd
    \/ CallSet
    \/ CallReplace
    \/ CallRename
    \/ CallContains
    \/ CallLookup
    \/ CallDelete
    \/ CallRange
    \/ Return

Spec == Init /\ [][Next]_vars

(***************************************************************************)
(* Shape of the state.                                                     *)
(***************************************************************************)
TypeOK ==
    /\ keySize \in KeySizes /\ valSize \in ValSizes
    /\ len \in 0 .. MaxAdds /\ len <= Len(arr) /\ Len(arr) <= cap
    /\ \A i \in 1 .. Len(arr) : arr[i] \in BytesOfLen(keySize + valSize)
    /\ res.v \in {0, 1} \/ call.name = "Len"

(***************************************************************************)
(* Vocabulary of the properties.                                           *)
(***************************************************************************)
\* m.m as the last call found it.
PreM == SubSeq(pre.arr, 1, pre.len)

\* The last call was method name and it returned (it did not panic).
Returned(name) == call.name = name /\ res.err = ""

\* The positions of mm whose key region equals k.
Matches(mm, k) == {i \in 1 .. Len(mm) : SubSeq(mm[i], 1, keySize) = k}

\* The first position of mm whose key region equals k, 0 if there is none.
First(mm, k) ==
    IF Matches(mm, k) = {} THEN 0
    ELSE CHOOSE i \in Matches(mm, k) : \A j \in Matches(mm, k) : i <= j

\* mm without its position i.
RemoveAt(mm, i) == SubSeq(mm, 1, i - 1) \o SubSeq(mm, i + 1, Len(mm))

\* The key of the last call is held by at least two entries of PreM.
Duplicated == Cardinality(Matches(PreM, call.key)) >= 2

(***************************************************************************)
(* C1.  Set(k, v) overwrites the value region of only the first entry      *)
(* whose key equals k: later entries with key k, entries with other keys   *)
(* and all key regions are unchanged.                                      *)
(* Violated by the code: Set has no "already matched" mask, so every       *)
(* entry with key k gets the value.                                        *)
(***************************************************************************)
C1_SetOnlyFirstMatch ==
    Returned("Set") =>
        LET f == First(PreM, call.key)
        IN  M = IF f = 0 THEN PreM
                ELSE [PreM EXCEPT ![f] = SubSeq(PreM[f], 1, keySize) \o call.val]

(***************************************************************************)
(* C2.  Delete(k) on a map with an entry of key k returns 1 and leaves the *)
(* prior entries without the first one of key k, the others in their       *)
(* order; with no entry of key k (the empty map too) it returns 0 and      *)
(* leaves every entry unchanged.                                           *)
(***************************************************************************)
C2_DeleteRemovesFirstMatch ==
    Returned("Delete") =>
        LET f == First(PreM, call.key)
        IN  IF f = 0 THEN res.v = 0 /\ M = PreM
            ELSE res.v = 1 /\ M = RemoveAt(PreM, f)

\* A Delete that removed the first of three entries while a later entry of
\* the same key and an entry of another key stayed.
C2_Witness ==
    /\ Returned("Delete") /\ res.v = 1 /\ pre.len = 3
    /\ First(PreM, call.key) = 1
    /\ Duplicated
    /\ \E i \in 1 .. 3 : SubSeq(PreM[i], 1, keySize) # call.key

(***************************************************************************)
(* C3.  Lookup(k, buf) returns 1 iff some entry has key k, and buf is then *)
(* the value of the first such entry; otherwise it returns 0 and buf keeps *)
(* its contents.                                                           *)
(***************************************************************************)
C3_LookupFirstMatch ==
    Returned("Lookup") =>
        LET f == First(PreM, call.key)
        IN  IF f = 0 THEN res.v = 0 /\ res.val = call.val
            ELSE res.v = 1 /\ res.val = SubSeq(PreM[f], keySize + 1, keySize + valSize)

\* A Lookup of a duplicated key whose last entry holds another value than
\* its first, into a buffer that held neither.
C3_Witness ==
    /\ Returned("Lookup") /\ res.v = 1 /\ Duplicated /\ valSize = 1
    /\ \E j \in Matches(PreM, call.key) : PreM[j] # PreM[First(PreM, call.key)]
    /\ res.val # call.val

(***************************************************************************)
(* C4.  Replace(oldKey, newKey, val) rewrites key and value of only the    *)
(* first entry whose key equals oldKey, leaves every other entry           *)
(* unchanged, and returns 1 iff such an entry existed.                     *)
(***************************************************************************)
C4_ReplaceOnlyFirstMatch ==
    Returned("Replace") =>
        LET f == First(PreM, call.key)
        IN  IF f = 0 THEN res.v = 0 /\ M = PreM
            ELSE res.v = 1 /\ M = [PreM EXCEPT ![f] = call.newKey \o call.val]

\* A Replace of a duplicated key that changed both regions of the first entry.
C4_Witness ==
    /\ Returned("Replace") /\ res.v = 1 /\ Duplicated
    /\ keySize = 1 /\ valSize = 1
    /\ call.newKey # call.key
    /\ LET f == First(PreM, call.key) IN M[f][1] # PreM[f][1] /\ M[f][2] # PreM[f][2]

(***************************************************************************)
(* C5.  Rename(oldKey, newKey) rewrites only the key region of the first   *)
(* entry whose key equals oldKey; its value region and every other entry   *)
(* are unchanged, and it returns 1 iff such an entry existed.              *)
(***************************************************************************)
C5_RenameOnlyFirstMatch ==
    Returned("Rename") =>
        LET f == First(PreM, call.key)
        IN  IF f = 0 THEN res.v = 0 /\ M = PreM
            ELSE /\ res.v = 1
                 /\ M = [PreM EXCEPT ![f] =
                            call.newKey \o SubSeq(PreM[f], keySize + 1, keySize + valSize)]

\* A Rename of a duplicated key to another key, on an entry with a non-zero value.
C5_Witness ==
    /\ Returned("Rename") /\ res.v = 1 /\ Duplicated
    /\ keySize = 1 /\ valSize = 1
    /\ call.newKey # call.key
    /\ PreM[First(PreM, call.key)][2] # 0

(***************************************************************************)
(* C6.  Contains(k) returns 1 iff at least one of the first Len() entries  *)
(* has key k, and 0 otherwise.                                             *)
(***************************************************************************)
C6_ContainsIffPresent ==
    Returned("Contains") =>
        res.v = IF \E i \in 1 .. len : SubSeq(arr[i], 1, keySize) = call.key THEN 1 ELSE 0

\* A Contains of a duplicated key that is not the key of the last entry.
C6_Witness ==
    /\ Returned("Contains") /\ res.v = 1 /\ Duplicated
    /\ SubSeq(arr[len], 1, keySize) # call.key

(***************************************************************************)
(* C7.  Len() equals the number of completed Add calls minus the number of *)
(* Delete calls that returned 1.                                           *)
(***************************************************************************)
C7_LenIsAddsMinusDeletes ==
    /\ MapLen = adds - dels
    /\ Returned("Len") => res.v = adds - dels

\* Len() is called after three Adds and a successful Delete, with a key held twice.
C7_Witness ==
    /\ Returned("Len") /\ adds = 3 /\ dels = 1 /\ res.v = 2
    /\ arr[1] = arr[2]

(***************************************************************************)
(* C8.  Add(k, v) appends exactly one entry, k followed by v, at the last  *)
(* position, whether or not k is present, and leaves every prior entry and *)
(* its position unchanged.                                                 *)
(***************************************************************************)
C8_AddAppends ==
    Returned("Add") => M = Append(PreM, call.key \o call.val)

\* An Add of a key already present, into a slot a Delete had left behind.
C8_Witness ==
    /\ Returned("Add") /\ Matches(PreM, call.key) # {}
    /\ Len(pre.arr) > pre.len
    /\ M[len] # Zeros(keySize + valSize)

(***************************************************************************)
(* C9.  When Delete returns 1 on a map of n entries, the slot that was at  *)
(* position n before the call is all zero after it, whichever position     *)
(* matched; when Delete returns 0 that slot is unchanged.                  *)
(***************************************************************************)
C9_DeleteZeroesLastSlot ==
    (Returned("Delete") /\ pre.len > 0) =>
        arr[pre.len] = IF res.v = 1 THEN Zeros(keySize + valSize) ELSE pre.arr[pre.len]

\* A Delete that matched at position 1 of 3 while the last slot was not zero.
C9_Witness ==
    /\ Returned("Delete") /\ res.v = 1 /\ pre.len = 3
    /\ First(PreM, call.key) = 1
    /\ pre.arr[3] # Zeros(keySize + valSize)
    /\ len = 2

(***************************************************************************)
(* C10.  A call of Add, Set, Replace, Rename, Contains, Lookup or Delete   *)
(* with a key whose length is not keySize or a value whose length is not   *)
(* valSize panics before any mutation: the entries, Len() and the caller's *)
(* buffer are as before the call, also for Delete on an empty map.         *)
(***************************************************************************)
\* The last call was given a wrongly sized argument.
WrongSize ==
    \/ /\ call.name \in {"Add", "Set", "Replace", "Rename", "Contains", "Lookup", "Delete"}
       /\ Len(call.key) # keySize
    \/ /\ call.name \in {"Replace", "Rename"}
       /\ Len(call.newKey) # keySize
    \/ /\ call.name \in {"Add", "Set", "Replace", "Lookup"}
       /\ Len(call.val) # valSize

C10_WrongSizePanicsBeforeMutation ==
    WrongSize =>
        /\ res.err # ""
        /\ arr = pre.arr /\ len = pre.len /\ cap = pre.cap
        /\ res.val = call.val

\* Delete of a wrongly sized key on an empty map.
C10_Witness ==
    /\ call.name = "Delete" /\ WrongSize /\ pre.len = 0 /\ res.err # ""

Repeat(p, n) == [i \in 1 .. n * Len(p) |-> p[((i - 1) % Len(p)) + 1]]

\* The trace a method makes on a map of n entries.
TraceOf(name, n) ==
    CASE name = "Set"      -> Repeat(<<"Compare", "Copy">>, n)
      [] name = "Replace"  -> Repeat(<<"Compare", "Copy", "Copy">>, n)
      [] name = "Rename"   -> Repeat(<<"Compare", "Copy">>, n)
      [] name = "Contains" -> Repeat(<<"Compare">>, n)
      [] name = "Lookup"   -> Repeat(<<"Compare", "Copy">>, n)
      [] name = "Delete"   -> IF n = 0 THEN <<>>
                              ELSE Repeat(<<"Compare", "Copy">>, n - 1) \o <<"Compare">>

C12_TraceDependsOnLenOnly ==
    \A name \in {"Set", "Replace", "Rename", "Contains", "Lookup", "Delete"} :
        Returned(name) => res.calls = TraceOf(name, pre.len)

\* A Lookup that matched the first of three entries and still scanned them all.
C12_Witness ==
    /\ Returned("Lookup") /\ res.v = 1 /\ pre.len = 3
    /\ First(PreM, call.key) = 1
    /\ Len(res.calls) = 6

(***************************************************************************)
(* C13.  With each entry tagged by the number of the Add that created it,  *)
(* the tags of the stored entries, read in storage order, are strictly     *)
(* increasing in every reachable state: no sequence of calls reorders two  *)
(* surviving entries.                                                      *)
(***************************************************************************)
C13_TagsStrictlyIncreasing ==
    /\ \A i \in 1 .. len : tags[i] \in 1 .. adds
    /\ \A i, j \in 1 .. len : i < j => tags[i] < tags[j]

\* A Delete removed the first of three entries: the second and third Add's
\* entries are now first and second.
C13_Witness ==
    /\ Returned("Delete") /\ res.v = 1 /\ len = 2
    /\ tags[1] = 2 /\ tags[2] = 3

(***************************************************************************)
(* C14.  In every reachable state every stored entry has length exactly    *)
(* keySize + valSize: no operation, Delete's shift and zeroing and the     *)
(* conditional copies of Set, Replace and Rename included, changes an      *)
(* entry's length.                                                         *)
(***************************************************************************)
C14_EntryLength ==
    \A i \in 1 .. len : Len(arr[i]) = keySize + valSize

\* Two-byte entries after a Replace that rewrote one of them, in a map that
\* a Delete had shifted before.
C14_Witness ==
    /\ Returned("Replace") /\ res.v = 1
    /\ keySize + valSize = 2
    /\ dels >= 1 /\ len = 2
    /\ arr # pre.arr

(***************************************************************************)
(* C15.  A map created by NewWithCapacity(ks, vs, c) has Len() = 0, and an *)
(* Add executed while Len() < c never reallocates the backing storage,     *)
(* also after a Delete: Add reallocates only when Len() equals the         *)
(* current capacity.                                                       *)
(***************************************************************************)
C15_NoReallocBelowCapacity ==
    /\ call.name = "NewWithCapacity" => len = 0 /\ cap = initCap
    /\ Returned("Add") =>
          /\ res.realloc <=> pre.len = pre.cap
          /\ pre.len < initCap => ~res.realloc

\* An Add into a map made with capacity 2 that a Delete had brought back
\* from two entries to one.
C15_Witness ==
    /\ Returned("Add") /\ initCap = 2
    /\ adds = 3 /\ dels = 1 /\ pre.len = 1
    /\ ~res.realloc

(***************************************************************************)
(* C16.  Range(visit) invokes visit exactly Len() times, once per stored   *)
(* entry in storage order, with that entry's key region and value region,  *)
(* duplicates included, and leaves the map unchanged.                      *)
(***************************************************************************)
C16_RangeVisitsEachEntryOnce ==
    Returned("Range") =>
        /\ Len(visited) = pre.len
        /\ \A i \in 1 .. pre.len :
              visited[i] = <<SubSeq(pre.arr[i], 1, keySize),
                             SubSeq(pre.arr[i], keySize + 1, keySize + valSize)>>
        /\ arr = pre.arr /\ len = pre.len /\ cap = pre.cap

\* A Range over two entries of one key with different values, with a slot
\* left behind by a Delete above them.
C16_Witness ==
    /\ Returned("Range") /\ len = 2 /\ Len(arr) = 3
    /\ keySize = 1 /\ valSize = 1
    /\ visited[1][1] = visited[2][1]
    /\ visited[1][2] # visited[2][2]

(***************************************************************************)
(* C17.  Set, Replace, Rename, Contains and Lookup never change Len(), and *)
(* Contains and Lookup change no byte of any stored entry, whatever they   *)
(* return.                                                                 *)
(***************************************************************************)
C17_ScansKeepLenAndReadsKeepBytes ==
    /\ \A name \in {"Set", "Replace", "Rename", "Contains", "Lookup"} :
          Returned(name) => len = pre.len /\ cap = pre.cap /\ Len(arr) = Len(pre.arr)
    /\ \A name \in {"Contains", "Lookup"} :
          Returned(name) => arr = pre.arr

\* A Lookup on three entries that found the key and overwrote the buffer.
C17_Witness ==
    /\ Returned("Lookup") /\ res.v = 1 /\ len = 3
    /\ res.val # call.val

(***************************************************************************)
(* C18.  During Delete's scan over positions 1 .. n-1 (0 .. n-2 in the     *)
(* code), the compare at position i reads entry i as it was before the     *)
(* call; after step i position i holds the original entry i+1 if some      *)
(* position <= i matched the key and the original entry i otherwise, and   *)
(* the positions above i are still unmodified; the final compare reads the *)
(* original last entry.                                                    *)
(***************************************************************************)
C18_DeleteScanSteps ==
    (Returned("Delete") /\ pre.len > 0) =>
        /\ Len(steps) = pre.len
        /\ \A i \in 1 .. pre.len - 1 :
              /\ steps[i].read = PreM[i]
              /\ steps[i].m[i] =
                    IF \E j \in 1 .. i : SubSeq(PreM[j], 1, keySize) = call.key
                    THEN PreM[i + 1] ELSE PreM[i]
              /\ \A j \in i + 1 .. pre.len : steps[i].m[j] = PreM[j]
        /\ steps[pre.len].read = PreM[pre.len]

\* A Delete on three different entries that matched the first: the scan has
\* overwritten position 1 when it compares at position 2.
C18_Witness ==
    /\ Returned("Delete") /\ pre.len = 3 /\ res.v = 1
    /\ First(PreM, call.key) = 1
    /\ PreM[1] # PreM[2] /\ PreM[2] # PreM[3]
    /\ steps[1].m[1] = PreM[2] /\ steps[2].m[2] = PreM[3]

(***************************************************************************)
(* C19.  In Delete the flag v is 0 or 1 when the zeroing mask is formed;   *)
(* the mask byte(v-1) is 0xff for v = 0 and 0x00 for v = 1 in 8-bit        *)
(* wraparound arithmetic, so ANDing a byte with it keeps the byte when     *)
(* nothing matched and clears it when something matched, and so for the    *)
(* whole last entry.                                                       *)
(***************************************************************************)
C19_ZeroingMask ==
    (Returned("Delete") /\ pre.len > 0) =>
        LET f == steps[pre.len]
        IN  /\ f.v \in {0, 1}
            /\ f.mask = IF f.v = 0 THEN 255 ELSE 0
            /\ \A b \in 0 .. 255 : BitAnd(b, f.mask) = IF f.v = 0 THEN b ELSE 0
            /\ arr[pre.len] = IF f.v = 0 THEN f.read ELSE Zeros(keySize + valSize)

\* A Delete that matched nothing and left a non-zero last entry as it was.
C19_Witness ==
    /\ Returned("Delete") /\ pre.len = 2 /\ res.v = 0
    /\ steps[2].mask = 255
    /\ arr[2] # Zeros(keySize + valSize) /\ arr[2] = pre.arr[2]

(***************************************************************************)
(* C20.  Set(k, v), Replace(k, k2, v), Rename(k, k2), Lookup(k, buf) and   *)
(* Delete(k) each return exactly what Contains(k) would return in the      *)
(* state the call found, and every returned flag is 0 or 1, never a larger *)
(* accumulated value, also when k is held by several entries.              *)
(***************************************************************************)
C20_FlagEqualsContains ==
    \A name \in {"Set", "Replace", "Rename", "Lookup", "Delete", "Contains"} :
        Returned(name) =>
            /\ res.v \in {0, 1}
            /\ res.v = ContainsLoop(PreM, call.key, 1, 0, <<>>).v

\* A Set whose key was held by three entries returned 1, as Contains would.
C20_Witness ==
    /\ Returned("Set") /\ pre.len = 3
    /\ Cardinality(Matches(PreM, call.key)) = 3
    /\ res.v = 1
    /\ ContainsLoop(PreM, call.key, 1, 0, <<>>).v = 1

(***************************************************************************)
(* C21.  Add(k, v) followed immediately by Delete(k): the Delete returns   *)
(* 1; if the map held no entry with key k before the Add, the live entry   *)
(* sequence and Len() are again exactly what they were before the Add; if  *)
(* it held one, the Delete removes the first such earlier entry and the    *)
(* newly added entry remains as the last entry.                            *)
(***************************************************************************)
C21_AddThenDelete ==
    (Returned("Delete") /\ lastAdd.some /\ call.key = lastAdd.key) =>
        LET before == lastAdd.m
            f      == First(before, call.key)
        IN  /\ res.v = 1
            /\ MapLen = Len(before)
            /\ M = IF f = 0 THEN before
                   ELSE Append(RemoveAt(before, f), lastAdd.key \o lastAdd.val)

\* An Add of a key the non-empty map did not hold, then a Delete of that key:
\* the map is as it was before the Add.
C21_Witness ==
    /\ Returned("Delete") /\ lastAdd.some /\ call.key = lastAdd.key
    /\ Len(lastAdd.m) >= 1
    /\ Matches(lastAdd.m, call.key) = {}
    /\ res.v = 1 /\ M = lastAdd.m

(***************************************************************************)
(* C22.  A Rename(oldKey, newKey) or Replace(oldKey, newKey, val) with     *)
(* oldKey # newKey that returns 1 lowers the number of entries with key    *)
(* oldKey by exactly one and raises the number with key newKey by exactly  *)
(* one, and Len() stays: nothing is merged or removed.  Afterwards         *)
(* Contains(newKey) is 1, Contains(oldKey) is 1 iff oldKey was held by     *)
(* two or more entries before, and an entry with key newKey that stood     *)
(* before the renamed one still gives Lookup(newKey) its value.            *)
(***************************************************************************)
C22_RenameMovesOneKey ==
    \A name \in {"Rename", "Replace"} :
        (Returned(name) /\ call.key # call.newKey /\ res.v = 1) =>
            LET f == First(PreM, call.key)
                g == First(PreM, call.newKey)
            IN  /\ Cardinality(Matches(M, call.key)) =
                       Cardinality(Matches(PreM, call.key)) - 1
                /\ Cardinality(Matches(M, call.newKey)) =
                       Cardinality(Matches(PreM, call.newKey)) + 1
                /\ MapLen = pre.len
                /\ ContainsLoop(M, call.newKey, 1, 0, <<>>).v = 1
                /\ ContainsLoop(M, call.key, 1, 0, <<>>).v = 1 <=> Duplicated
                /\ (g # 0 /\ g < f) =>
                       \A buf \in BytesOfLen(valSize) :
                           LET l == LookupLoop(M, call.newKey, buf, 1, 0, <<>>)
                           IN  l.v = 1 /\ l.val = SubSeq(PreM[g], keySize + 1,
                                                         keySize + valSize)

\* A Rename of a duplicated key in a map whose first entry already had the new
\* key, with a value other than the renamed entry's.
C22_Witness ==
    /\ Returned("Rename") /\ call.key # call.newKey /\ res.v = 1
    /\ pre.len = 3 /\ Duplicated
    /\ First(PreM, call.newKey) = 1 /\ First(PreM, call.key) = 2
    /\ valSize = 1 /\ PreM[1][2] # PreM[2][2]
    /\ M[2] = call.newKey \o <<PreM[2][2]>>

====
